---- MODULE Spec2Model ----
(***************************************************************************)
(* Model of src/app/page.tsx: the search-augmented chat page.              *)
(*                                                                         *)
(*   - parseMessageContent (lines 17-41), the segmenter of a streamed      *)
(*     assistant message, is a pure function over texts;                   *)
(*   - handleSubmit (lines 53-115) is the asynchronous orchestrator of a   *)
(*     turn: reset, search request, (failure | injection + model request), *)
(*     history update, loading flag.  It suspends at the two awaits        *)
(*     (line 64, line 77); everything it does between two awaits is one    *)
(*     atomic step of the single-threaded event loop.                      *)
(*                                                                         *)
(* Texts are sequences of one-character strings wherever the code looks    *)
(* inside them (trim, includes, split, replace); the formatted search      *)
(* context is the sequence of the pieces its template literal              *)
(* concatenates.  Message ids are not modelled: nothing reads them but     *)
(* the renderer's keys.                                                    *)
(***************************************************************************)
EXTENDS Integers, Sequences, FiniteSets, TLC

VARIABLES
    input,            \* useChat's input field                        (line 49)
    messages,         \* useChat's conversation store                 (line 49)
    isSearching,      \* loading flag                                 (line 44)
    searchResults,    \* stored result list of the last search        (line 45)
    searchError,      \* search error text, or NoError                (line 46)
    previousQueries,  \* query history                                (line 47)
    pc,               \* where the running handleSubmit is suspended
    closure,          \* what the running handleSubmit captured when invoked
    searchReq,        \* body of the search request in flight         (67-70)
    streams,          \* model responses in flight, by turn
    turn,             \* number of accepted submits so far
    cur,              \* the latest accepted submit: how its search ended,
                      \* the model requests it issued, whether a chunk of an
                      \* earlier response arrived while it was searching
    modelRequests,    \* number of model requests issued so far
    succeeded,        \* queries of the turns whose search succeeded, all of them
    answer,           \* how the search collaborator answered the latest
                      \* accepted submit: "pending", "failed" (a rejection, a
                      \* non-ok status, a malformed body) or "ok"
    ev,               \* the step taken last
    buffer,           \* the chunks of a streamed assistant message, so far
    view              \* parseMessageContent(buffer), as the renderer computes it

vars == <<input, messages, isSearching, searchResults, searchError,
          previousQueries, pc, closure, searchReq, streams, turn, cur, modelRequests,
          succeeded, answer, ev, buffer, view>>

orchVars == <<input, messages, isSearching, searchResults, searchError,
              previousQueries, pc, closure, searchReq, streams, turn, succeeded,
              answer>>

----------------------------------------------------------------------------
(* Bounds of the model.                                                    *)

MaxTurns == 2        \* accepted submits in a run

MaxHistTurns == 4    \* accepted submits in a run of HistSpec

MaxResults == 2      \* results in a search response

MaxChunks == 1       \* chunks of a streamed model response

MaxPieces == 5       \* pieces a streamed buffer is made of (segmenter)

----------------------------------------------------------------------------
(* Texts.                                                                  *)

\* String.prototype.trim's white space, as far as the model's texts hold it.
IsSpace(c) == c \in {" ", "\n", "\t"}

RECURSIVE TrimStart(_)
TrimStart(s) ==
    IF s # <<>> /\ IsSpace(Head(s)) THEN TrimStart(Tail(s)) ELSE s

RECURSIVE TrimEnd(_)
TrimEnd(s) ==
    IF s # <<>> /\ IsSpace(s[Len(s)])
        THEN TrimEnd(SubSeq(s, 1, Len(s) - 1))
        ELSE s

\* s.trim()
Trim(s) == TrimEnd(TrimStart(s))

\* arr.slice(-n)
SliceLast(s, n) ==
    IF Len(s) <= n THEN s ELSE SubSeq(s, Len(s) - n + 1, Len(s))

\* s.includes(m), for a non-empty m
Includes(s, m) ==
    \E i \in 1..(Len(s) - Len(m) + 1) : SubSeq(s, i, i + Len(m) - 1) = m

\* s.indexOf(m) + 1: the place of the first occurrence of m in s, 0 if none
IndexOf(s, m) ==
    IF Includes(s, m)
        THEN CHOOSE i \in 1..(Len(s) - Len(m) + 1) :
                 /\ SubSeq(s, i, i + Len(m) - 1) = m
                 /\ \A j \in 1..(i - 1) : SubSeq(s, j, j + Len(m) - 1) # m
        ELSE 0

RECURSIVE Split(_, _)
\* s.split(m): the pieces of s between the occurrences of m, left to right
Split(s, m) ==
    LET i == IndexOf(s, m)
    IN  IF i = 0
            THEN <<s>>
            ELSE <<SubSeq(s, 1, i - 1)>> \o Split(SubSeq(s, i + Len(m), Len(s)), m)

RECURSIVE Join(_, _)
\* parts.join(m)
Join(parts, m) ==
    IF parts = <<>> THEN <<>>
    ELSE IF Len(parts) = 1 THEN parts[1]
    ELSE parts[1] \o m \o Join(Tail(parts), m)

\* s.replace(m, ''): a string pattern replaces its first occurrence only
Remove(s, m) ==
    LET i == IndexOf(s, m)
    IN  IF i = 0 THEN s
        ELSE SubSeq(s, 1, i - 1) \o SubSeq(s, i + Len(m), Len(s))

----------------------------------------------------------------------------
(* parseMessageContent, lines 17-41.                                       *)

StartMarker == <<"<", "t", "h", "i", "n", "k", ">">>

EndMarker == <<"<", "/", "t", "h", "i", "n", "k", ">">>

\* parseMessageContent keeping only the piece between the first and the
\* second end marker (rest[0] for rest.join).
parseMessageContentFirstRest(content) ==
    IF Includes(content, EndMarker)
        THEN LET parts == Split(content, EndMarker)
             IN  [thinking |-> Trim(Remove(Head(parts), StartMarker)),
                  finalResponse |-> Trim(parts[2]),
                  isComplete |-> TRUE]
    ELSE IF Includes(content, StartMarker)
        THEN [thinking |-> Trim(Remove(content, StartMarker)),
              finalResponse |-> <<>>,
              isComplete |-> FALSE]
    ELSE [thinking |-> <<>>, finalResponse |-> content, isComplete |-> TRUE]

\* parseMessageContent without the trim of an unfinished thinking text.
parseMessageContentUntrimmed(content) ==
    IF Includes(content, EndMarker)
        THEN LET parts == Split(content, EndMarker)
             IN  [thinking |-> Trim(Remove(Head(parts), StartMarker)),
                  finalResponse |-> Trim(Join(Tail(parts), EndMarker)),
                  isComplete |-> TRUE]
    ELSE IF Includes(content, StartMarker)
        THEN [thinking |-> Remove(content, StartMarker),
              finalResponse |-> <<>>,
              isComplete |-> FALSE]
    ELSE [thinking |-> <<>>, finalResponse |-> content, isComplete |-> TRUE]

\* parseMessageContent trimming a content without markers too.
parseMessageContentTrimsPlain(content) ==
    IF Includes(content, EndMarker)
        THEN LET parts == Split(content, EndMarker)
             IN  [thinking |-> Trim(Remove(Head(parts), StartMarker)),
                  finalResponse |-> Trim(Join(Tail(parts), EndMarker)),
                  isComplete |-> TRUE]
    ELSE IF Includes(content, StartMarker)
        THEN [thinking |-> Trim(Remove(content, StartMarker)),
              finalResponse |-> <<>>,
              isComplete |-> FALSE]
    ELSE [thinking |-> <<>>, finalResponse |-> Trim(content), isComplete |-> TRUE]

\* parseMessageContent testing the start marker first: a start marker that
\* follows the last end marker opens a new, unfinished thinking text.
parseMessageContentReopens(content) ==
    LET parts == Split(content, EndMarker)
    IN  IF Includes(parts[Len(parts)], StartMarker)
            THEN [thinking |-> Trim(Remove(content, StartMarker)),
                  finalResponse |-> <<>>,
                  isComplete |-> FALSE]
        ELSE IF Includes(content, EndMarker)
            THEN [thinking |-> Trim(Remove(Head(parts), StartMarker)),
                  finalResponse |-> Trim(Join(Tail(parts), EndMarker)),
                  isComplete |-> TRUE]
        ELSE [thinking |-> <<>>, finalResponse |-> content, isComplete |-> TRUE]

parseMessageContent(content) ==
    IF Includes(content, EndMarker)
        THEN LET parts == Split(content, EndMarker)
                 thinking == Head(parts)
                 rest == Tail(parts)
             IN  [thinking |-> Trim(Remove(thinking, StartMarker)),
                  finalResponse |-> Trim(Join(rest, EndMarker)),
                  isComplete |-> TRUE]
    ELSE IF Includes(content, StartMarker)
        THEN [thinking |-> Trim(Remove(content, StartMarker)),
              finalResponse |-> <<>>,
              isComplete |-> FALSE]
    ELSE [thinking |-> <<>>, finalResponse |-> content, isComplete |-> TRUE]

----------------------------------------------------------------------------
(* Values of the search collaborator.                                      *)

HistoryCap == 3      \* slice(-3), lines 69 and 107

\* SearchResult (lines 8-14); an absent optional field is the empty text,
\* which the formatter's truthiness tests treat alike (line 83).
R1 == [kind |-> "object", title |-> "T1", url |-> "U1", text |-> "X1",
       author |-> "Ann", publishedDate |-> "2024"]

R2 == [kind |-> "object", title |-> "T2", url |-> "U2", text |-> "X2",
       author |-> "", publishedDate |-> ""]

\* A JSON null where a result object is expected.
NullItem == [kind |-> "null", title |-> "", url |-> "", text |-> "",
             author |-> "", publishedDate |-> ""]

\* The result lists a search response can carry: the first k results of a
\* catalogue in which results with and without the optional fields
\* alternate, and the same lists with a null for their last result.
Catalogue(k) == [i \in 1..k |-> IF i % 2 = 1 THEN R1 ELSE R2]

WellFormedLists == {Catalogue(k) : k \in 0..MaxResults}

MalformedLists == {[Catalogue(k) EXCEPT ![k] = NullItem] : k \in 1..MaxResults}

\* The value of a JS variable that should hold an array of results.
Arr(items) == [kind |-> "array", items |-> items]

Undefined == [kind |-> "undefined", items |-> <<>>]

\* A `results` that is no array and has no length, such as a number.
IllTyped == [kind |-> "number", items |-> <<>>]

\* What `await searchResponse.json()` can produce (line 77): a rejection, or
\* a parsed body: null, an object without `results`, an object whose
\* `results` is no array, an object whose `results` is an array.
Thrown(isErr, msg) == [isError |-> isErr, message |-> msg]

Bodies ==
    {[kind |-> "reject", err |-> Thrown(TRUE, "Unexpected token"), results |-> Undefined]}
    \cup {[kind |-> "null", err |-> Thrown(TRUE, ""), results |-> Undefined]}
    \cup {[kind |-> "object", err |-> Thrown(TRUE, ""), results |-> Undefined]}
    \cup {[kind |-> "object", err |-> Thrown(TRUE, ""), results |-> IllTyped]}
    \cup {[kind |-> "object", err |-> Thrown(TRUE, ""), results |-> Arr(l)] :
             l \in WellFormedLists \cup MalformedLists}

\* What `await fetch(...)` can produce (line 64): a rejection (an Error, or
\* any other thrown value), a response with ok false, a response with ok true.
FetchOutcomes ==
    {[kind |-> "reject", err |-> Thrown(TRUE, "Failed to fetch")],
     [kind |-> "reject", err |-> Thrown(FALSE, "")],
     [kind |-> "status", err |-> Thrown(TRUE, "")],
     [kind |-> "ok", err |-> Thrown(TRUE, "")]}

\* A body the search call does not fail on: an object with a `results`
\* whose elements, if it has any, are objects.  (A `results` that is no
\* array has no length to test: line 81 reads it as having no result.)
Processable(b) ==
    /\ b.kind = "object"
    /\ b.results.kind # "undefined"
    /\ \A i \in 1..Len(b.results.items) : b.results.items[i].kind = "object"

NoError == "null"    \* searchError's initial value, line 46

\* line 110: err instanceof Error ? err.message : 'Search failed'
CatchMessage(err) == IF err.isError THEN err.message ELSE "Search failed"

----------------------------------------------------------------------------
(* Search context formatter, lines 81-85.                                  *)

NumStr == <<"1", "2", "3", "4", "5">>

\* One `Source [i]` block of the template literal on line 83.
FormatSource(r, i) ==
    <<"Source [", NumStr[i], "]:\nTitle: ", r.title, "\nURL: ", r.url, "\n">>
    \o (IF r.author # "" THEN <<"Author: ", r.author, "\n">> ELSE <<>>)
    \o (IF r.publishedDate # "" THEN <<"Date: ", r.publishedDate, "\n">> ELSE <<>>)
    \o <<"Content: ", r.text, "\n---">>

RECURSIVE JoinBlocks(_, _)
\* blocks.join(sep)
JoinBlocks(blocks, sep) ==
    IF blocks = <<>> THEN <<>>
    ELSE IF Len(blocks) = 1 THEN blocks[1]
    ELSE blocks[1] \o <<sep>> \o JoinBlocks(Tail(blocks), sep)

Instructions == "\n\nInstructions: Based on the above search results, please provide an answer to the user's query. When referencing information, cite the source number in brackets like [1], [2], etc. Use simple english. Use simple words."

\* FormatContext without the test on results.length: a header and the
\* instructions even when there is no result.
FormatContextAlways(items) ==
    <<"Web Search Results:\n\n">>
    \o JoinBlocks([i \in 1..Len(items) |-> FormatSource(items[i], i)], "\n\n")
    \o <<Instructions>>

\* searchContext of lines 81-85, for a list of result objects.
FormatContext(items) ==
    IF Len(items) > 0
        THEN <<"Web Search Results:\n\n">>
             \o JoinBlocks([i \in 1..Len(items) |-> FormatSource(items[i], i)], "\n\n")
             \o <<Instructions>>
        ELSE <<>>

\* Evaluating lines 81-85 throws a TypeError when `results` is undefined
\* (results.length) or holds a null (r.title).
FormatThrows(results) ==
    \/ results.kind = "undefined"
    \/ \E i \in 1..Len(results.items) : results.items[i].kind = "null"

Message(role, content) == [role |-> role, content |-> content]

----------------------------------------------------------------------------
(* Page state and handleSubmit, lines 43-115.                              *)

\* What the user can type into the input field (line 210): nothing, white
\* space, or a query.
Inputs == {<<>>, <<" ">>, <<"a">>, <<"b">>}

\* The query of the k-th turn of a user who asks something new every turn.
Letters == <<"a", "b", "c", "d", "e", "f">>

FreshQuery(k) == <<Letters[((k - 1) % Len(Letters)) + 1]>>

FreshInputs == {<<" ">>, FreshQuery(turn + 1)}

\* A chunk of a streamed model response.
Chunk == <<"x">>

NoClosure == [input |-> <<>>, messages |-> <<>>]

NoRequest == [query |-> <<>>, previousQueries |-> <<>>]

\* Rejects without the trim: white space counts as a query.
RejectsEmptyOnly(inp) == inp = <<>>

\* line 55: !input.trim()
Rejects(inp) == Trim(inp) = <<>>

\* line 217: the submit control is disabled
SubmitDisabled == Rejects(input) \/ isSearching

\* Window taken after the current query was added.
WindowWithCurrent(prev) == SliceLast(prev \o <<input>>, HistoryCap)

\* line 69: previousQueries.slice(-3)
Window(prev) == SliceLast(prev, HistoryCap)

\* AppendQuery keeping the first three entries instead of the last three.
AppendQueryKeepOldest(prev, q) ==
    IF Len(prev) < HistoryCap THEN prev \o <<q>> ELSE SubSeq(prev, 1, HistoryCap)

\* line 107: [...prev, input].slice(-3)
AppendQuery(prev, q) == SliceLast(prev \o <<q>>, HistoryCap)

\* NewMessages with the system message put first.
NewMessagesFront(captured, ctx) == <<Message("system", ctx)>> \o captured

\* lines 90-97: newMessages, built on the `messages` the handler captured
NewMessages(captured, ctx) == captured \o <<Message("system", ctx)>>

\* ChatRequest reading the list the handler captured instead of the store's
\* current one: the injected system message is not part of the request.
ChatRequestStale(current, inp) == closure.messages \o <<Message("user", inp)>>

\* useChat's handleSubmit (lines 101, 103): the user message, carrying the
\* captured input, is appended to the store's current list, and that list is
\* the model request.  (setMessages, line 98, has made newMessages the
\* current list by then.)
ChatRequest(current, inp) == current \o <<Message("user", inp)>>

\* The transcript rendering every message of the log.
VisibleAll(msgs) == msgs

\* The messages the transcript renders: messages.filter(m => m.role !== 'system').
Visible(msgs) == SelectSeq(msgs, LAMBDA m : m.role # "system")

\* The source list rendered after message m of the transcript: the stored
\* result list, after a user message, when no search is running and the list
\* has a positive length (a stored number has no length; the render of a
\* stored undefined throws).
RenderedSources(m) ==
    IF /\ m.role = "user"
       /\ ~isSearching
       /\ searchResults.kind = "array"
       /\ Len(searchResults.items) > 0
        THEN searchResults.items
    ELSE <<>>

Init ==
    /\ input = <<>>
    /\ messages = <<>>
    /\ isSearching = FALSE
    /\ searchResults = Arr(<<>>)
    /\ searchError = NoError
    /\ previousQueries = <<>>
    /\ pc = "idle"
    /\ closure = NoClosure
    /\ searchReq = NoRequest
    /\ streams = {}
    /\ turn = 0
    /\ cur = [status |-> "none", requests |-> 0, streamed |-> FALSE]
    /\ modelRequests = 0
    /\ succeeded = <<>>
    /\ answer = "none"
    /\ ev = "init"
    /\ buffer = <<>>
    /\ view = parseMessageContent(<<>>)

\* handleInputChange, line 211
HandleInputChange(v) ==
    /\ input' = v
    /\ ev' = "other"
    /\ UNCHANGED <<messages, isSearching, searchResults, searchError,
                   previousQueries, pc, closure, searchReq, streams, turn,
                   cur, modelRequests, succeeded, buffer, view, answer>>

\* handleSubmit, lines 54-55: the early return, for a submit event that
\* reaches the handler with a blank input (the submit control is disabled
\* then, line 217, so it comes from elsewhere, e.g. form.requestSubmit()).
SubmitRejected ==
    /\ Rejects(input)
    /\ ev' = "rejected"
    /\ UNCHANGED <<input, messages, isSearching, searchResults, searchError,
                   previousQueries, pc, closure, searchReq, streams, turn,
                   cur, modelRequests, succeeded, buffer, view, answer>>

\* SubmitAccepted with the model request issued next to the search request
\* instead of after its answer.
SubmitAcceptedEager ==
    LET request == messages \o <<Message("user", input)>>
    IN  /\ ~Rejects(input)
        /\ ~SubmitDisabled
        /\ isSearching' = TRUE
        /\ searchResults' = Arr(<<>>)
        /\ searchError' = NoError
        /\ closure' = [input |-> input, messages |-> messages]
        /\ searchReq' = [query |-> input, previousQueries |-> SliceLast(previousQueries, HistoryCap)]
        /\ pc' = "fetch"
        /\ modelRequests' = modelRequests + 1
        /\ messages' = request
        /\ streams' = streams \cup {[turn |-> turn + 1, request |-> request,
                                     text |-> <<>>, chunks |-> 0]}
        /\ turn' = turn + 1
        /\ cur' = [status |-> "searching", requests |-> 1, streamed |-> FALSE]
        /\ answer' = "pending"
        /\ ev' = "submit"
        /\ UNCHANGED <<input, previousQueries, succeeded, buffer, view>>

\* SubmitAccepted leaving the error of the turn before in place.
SubmitAcceptedKeepsError ==
    /\ ~Rejects(input)
    /\ ~SubmitDisabled
    /\ isSearching' = TRUE
    /\ searchResults' = Arr(<<>>)
    /\ searchError' = searchError
    /\ closure' = [input |-> input, messages |-> messages]
    /\ searchReq' = [query |-> input, previousQueries |-> SliceLast(previousQueries, HistoryCap)]
    /\ pc' = "fetch"
    /\ modelRequests' = modelRequests
    /\ turn' = turn + 1
    /\ cur' = [status |-> "searching", requests |-> 0, streamed |-> FALSE]
    /\ answer' = "pending"
    /\ ev' = "submit"
    /\ UNCHANGED <<input, messages, previousQueries, streams, succeeded,
                   buffer, view>>

\* SubmitAccepted leaving the results of the turn before in place.
SubmitAcceptedKeepsResults ==
    /\ ~Rejects(input)
    /\ ~SubmitDisabled
    /\ isSearching' = TRUE
    /\ searchResults' = searchResults
    /\ searchError' = NoError
    /\ closure' = [input |-> input, messages |-> messages]
    /\ searchReq' = [query |-> input, previousQueries |-> SliceLast(previousQueries, HistoryCap)]
    /\ pc' = "fetch"
    /\ modelRequests' = modelRequests
    /\ turn' = turn + 1
    /\ cur' = [status |-> "searching", requests |-> 0, streamed |-> FALSE]
    /\ answer' = "pending"
    /\ ev' = "submit"
    /\ UNCHANGED <<input, messages, previousQueries, streams, succeeded,
                   buffer, view>>

\* handleSubmit, lines 54-71: reset, then the search request; the handler
\* suspends at `await fetch`.  The form submits only while the submit
\* control is enabled (line 217).
SubmitAccepted ==
    /\ ~Rejects(input)
    /\ ~SubmitDisabled
    /\ isSearching' = TRUE
    /\ searchResults' = Arr(<<>>)
    /\ searchError' = NoError
    /\ closure' = [input |-> input, messages |-> messages]
    /\ searchReq' = [query |-> input, previousQueries |-> Window(previousQueries)]
    /\ pc' = "fetch"
    /\ modelRequests' = modelRequests
    /\ turn' = turn + 1
    /\ cur' = [status |-> "searching", requests |-> 0, streamed |-> FALSE]
    /\ answer' = "pending"
    /\ ev' = "submit"
    /\ UNCHANGED <<input, messages, previousQueries, streams, succeeded,
                   buffer, view>>

\* SearchFailed without the finally block: the loading flag stays up.
SearchFailedNoFinally(err, stored) ==
    /\ searchError' = CatchMessage(err)
    /\ searchResults' = stored
    /\ pc' = "idle"
    /\ closure' = NoClosure
    /\ searchReq' = NoRequest
    /\ cur' = [cur EXCEPT !.status = "failed"]
    /\ UNCHANGED <<input, messages, isSearching, previousQueries, streams, turn,
                   succeeded, modelRequests, buffer, view>>

\* SearchFailed with handleChatSubmit moved into the finally block: the
\* model request goes out although the search failed.
SearchFailedStillAsks(err, stored) ==
    LET request == messages \o <<Message("user", closure.input)>>
    IN  /\ searchError' = CatchMessage(err)
        /\ searchResults' = stored
        /\ isSearching' = FALSE
        /\ pc' = "idle"
        /\ closure' = NoClosure
        /\ searchReq' = NoRequest
        /\ cur' = [cur EXCEPT !.status = "failed", !.requests = cur.requests + 1]
        /\ messages' = request
        /\ streams' = streams \cup {[turn |-> turn, request |-> request,
                                     text |-> <<>>, chunks |-> 0]}
        /\ modelRequests' = modelRequests + 1
        /\ input' = <<>>
        /\ UNCHANGED <<previousQueries, turn, succeeded, buffer, view>>

\* lines 109-114: catch and finally.  `stored` is what setSearchResults was
\* given before the throw, or the current value when it was never called.
SearchFailed(err, stored) ==
    /\ searchError' = CatchMessage(err)
    /\ searchResults' = stored
    /\ isSearching' = FALSE
    /\ pc' = "idle"
    /\ closure' = NoClosure
    /\ searchReq' = NoRequest
    /\ cur' = [cur EXCEPT !.status = "failed"]
    /\ UNCHANGED <<input, messages, previousQueries, streams, turn, succeeded,
                   modelRequests, buffer, view>>

\* SearchSucceeded with handleChatSubmit called after the if as well as in
\* its first branch: a turn with results issues the model request twice.
SearchSucceededTwice(results) ==
    LET ctx == FormatContext(results.items)
        current == IF ctx # <<>> THEN closure.messages \o <<Message("system", ctx)>>
                   ELSE messages
        request == current \o <<Message("user", closure.input)>>
        n == IF ctx # <<>> THEN 2 ELSE 1
    IN  /\ searchResults' = results
        /\ messages' = request
        /\ streams' = streams \cup {[turn |-> turn, request |-> request,
                                     text |-> <<>>, chunks |-> 0]}
        /\ input' = <<>>
        /\ previousQueries' = SliceLast(previousQueries \o <<closure.input>>, HistoryCap)
        /\ succeeded' = Append(succeeded, closure.input)
        /\ isSearching' = FALSE
        /\ pc' = "idle"
        /\ closure' = NoClosure
        /\ searchReq' = NoRequest
        /\ cur' = [cur EXCEPT !.status = "ok", !.requests = cur.requests + n]
        /\ modelRequests' = modelRequests + n
        /\ UNCHANGED <<searchError, turn, buffer, view>>

\* lines 78-107 and 112-114, when nothing throws: store the results, inject
\* the context if there is one, issue the model request, update the history,
\* drop the loading flag.  setMessages makes newMessages the store's current
\* list before handleChatSubmit reads it; handleChatSubmit empties the input.
SearchSucceeded(results) ==
    LET ctx == FormatContext(results.items)
        current == IF ctx # <<>> THEN NewMessages(closure.messages, ctx) ELSE messages
        request == ChatRequest(current, closure.input)
    IN  /\ searchResults' = results
        /\ messages' = request
        /\ streams' = streams \cup {[turn |-> turn, request |-> request,
                                     text |-> <<>>, chunks |-> 0]}
        /\ input' = <<>>
        /\ previousQueries' = AppendQuery(previousQueries, closure.input)
        /\ succeeded' = Append(succeeded, closure.input)
        /\ isSearching' = FALSE
        /\ pc' = "idle"
        /\ closure' = NoClosure
        /\ searchReq' = NoRequest
        /\ cur' = [cur EXCEPT !.status = "ok", !.requests = cur.requests + 1]
        /\ modelRequests' = modelRequests + 1
        /\ UNCHANGED <<searchError, turn, buffer, view>>

\* `await fetch` settles, lines 64-75.
FetchSettles(r) ==
    /\ pc = "fetch"
    /\ ev' = "other"
    /\ answer' = IF r.kind = "ok" THEN "pending" ELSE "failed"
    /\ IF r.kind = "ok"
          THEN /\ pc' = "json"
               /\ UNCHANGED <<input, messages, isSearching, searchResults,
                              searchError, previousQueries, closure, searchReq,
                              streams, turn, cur, modelRequests, succeeded, buffer, view>>
          ELSE SearchFailed(IF r.kind = "status" THEN Thrown(TRUE, "Search failed")
                                                 ELSE r.err,
                            searchResults)

\* `await searchResponse.json()` settles, lines 77-114.
JsonSettles(b) ==
    /\ pc = "json"
    /\ ev' = "other"
    /\ answer' = IF Processable(b) THEN "ok" ELSE "failed"
    /\ CASE b.kind = "reject" -> SearchFailed(b.err, searchResults)
         [] b.kind = "null" ->
               SearchFailed(Thrown(TRUE, "Cannot destructure property"), searchResults)
         [] b.kind = "object" /\ FormatThrows(b.results) ->
               SearchFailed(Thrown(TRUE, "Cannot read properties"), b.results)
         [] OTHER -> SearchSucceeded(b.results)

\* useChat (the ai/react hook, a dependency of the page): a chunk of a model
\* response arrives; the store becomes that request's message list followed
\* by the assistant message so far.
StreamChunk(s) ==
    /\ s.chunks < MaxChunks
    /\ LET t == [s EXCEPT !.text = s.text \o Chunk, !.chunks = s.chunks + 1]
       IN  /\ streams' = (streams \ {s}) \cup {t}
           /\ messages' = s.request \o <<Message("assistant", t.text)>>
    /\ cur' = IF pc # "idle" THEN [cur EXCEPT !.streamed = TRUE] ELSE cur
    /\ ev' = "other"
    /\ UNCHANGED <<input, isSearching, searchResults, searchError,
                   previousQueries, pc, closure, searchReq, turn,
                   modelRequests, succeeded, buffer, view, answer>>

\* useChat: a model response ends.
StreamEnds(s) ==
    /\ streams' = streams \ {s}
    /\ ev' = "other"
    /\ UNCHANGED <<input, messages, isSearching, searchResults, searchError,
                   previousQueries, pc, closure, searchReq, turn, cur, modelRequests,
                   succeeded, buffer, view, answer>>

Next ==
    \/ \E v \in FreshInputs : HandleInputChange(v)
    \/ SubmitRejected
    \/ turn < MaxTurns /\ SubmitAccepted
    \/ \E r \in FetchOutcomes : FetchSettles(r)
    \/ \E b \in Bodies : JsonSettles(b)
    \/ \E s \in streams : StreamChunk(s)
    \/ \E s \in streams : StreamEnds(s)

Spec == Init /\ [][Next]_vars

\* The search collaborator answers every request, one way or another.
LiveSpec ==
    /\ Spec
    /\ WF_vars(\E r \in FetchOutcomes : FetchSettles(r))
    /\ WF_vars(\E b \in Bodies : JsonSettles(b))

\* Longer runs, for the query history: the user types any of Inputs, the
\* search answers in every way it can fail or with at most one result, and
\* the model responses end without delivering text (nothing a stream writes
\* is read by the history, lines 69 and 107).
HistBodies ==
    {b \in Bodies : b.results.kind = "array" => Len(b.results.items) <= 1}

HistNext ==
    \/ \E v \in Inputs : HandleInputChange(v)
    \/ SubmitRejected
    \/ turn < MaxHistTurns /\ SubmitAccepted
    \/ \E r \in FetchOutcomes : FetchSettles(r)
    \/ \E b \in HistBodies : JsonSettles(b)
    \/ \E s \in streams : StreamEnds(s)

HistSpec == Init /\ [][HistNext]_vars

----------------------------------------------------------------------------
(* The renderer's segmentation of one streamed assistant message, lines    *)
(* 134-158: every chunk re-renders, and the render parses the content.     *)

\* What a chunk can be: a marker, a part of a marker, text, white space.
Pieces ==
    {StartMarker, EndMarker, <<"<">>, Tail(StartMarker), Tail(EndMarker),
     <<"x">>, <<" ">>, <<"\n">>}

RECURSIVE Flatten(_)
Flatten(chunks) ==
    IF chunks = <<>> THEN <<>> ELSE Head(chunks) \o Flatten(Tail(chunks))

\* message.content of the streamed message
Content == Flatten(buffer)

ChunkArrives(p) ==
    /\ Len(buffer) < MaxPieces
    /\ buffer' = Append(buffer, p)
    /\ view' = parseMessageContent(Flatten(buffer'))
    /\ UNCHANGED <<orchVars, cur, modelRequests, ev>>

SegNext == \E p \in Pieces : ChunkArrives(p)

SegSpec == Init /\ [][SegNext]_vars

----------------------------------------------------------------------------
(* Properties.                                                             *)

SystemCount(msgs) == Cardinality({i \in DOMAIN msgs : msgs[i].role = "system"})

\* The step in which the search collaborator's answer fails the turn.
TurnFails == answer = "pending" /\ answer' = "failed"

\* The step in which the search collaborator's well-formed body arrives.
TurnSucceeds == answer = "pending" /\ answer' = "ok"

C2_RequestOnlyAfterSearch ==
    /\ answer \in {"pending", "failed"} =>
          /\ cur.requests = 0
          /\ \A s \in streams : s.turn < turn
    /\ pc # "idle" => answer = "pending"
    /\ \A s \in streams : s.turn <= turn

\* The model request of a second turn is in flight, its search answered.
C2_Witness ==
    /\ turn = 2
    /\ answer = "ok"
    /\ pc = "idle"
    /\ \E s \in streams : s.turn = 2

\* C3: the step that ends a turn's search appends a system message iff the
\* search answered well with at least one result; with an empty result list
\* it appends the user message alone to the conversation and issues the
\* model request over exactly that.
C3_InjectIffResults ==
    [][(pc # "idle" /\ pc' = "idle") =>
        LET nonEmpty == searchResults'.kind = "array" /\ Len(searchResults'.items) > 0
        IN  /\ (TurnSucceeds /\ nonEmpty) =>
                   /\ Len(messages') = Len(closure.messages) + 2
                   /\ SubSeq(messages', 1, Len(closure.messages)) = closure.messages
                   /\ messages'[Len(messages') - 1].role = "system"
                   /\ messages'[Len(messages') - 1].content # <<>>
                   /\ messages'[Len(messages')].role = "user"
            /\ ~(TurnSucceeds /\ nonEmpty) =>
                   messages' \in {messages,
                                  messages \o <<Message("user", closure.input)>>}
            /\ (TurnSucceeds /\ ~nonEmpty) =>
                   /\ messages' = messages \o <<Message("user", closure.input)>>
                   /\ modelRequests' = modelRequests + 1
                   /\ \E s \in streams' \ streams :
                          s.turn = turn /\ s.request = messages'
                   /\ \A s \in streams' \ streams :
                          SystemCount(s.request) = SystemCount(messages)]_vars

\* A second turn whose search answered with no result, after a first one
\* with results: one system message in the conversation, two user messages.
C3_Witness ==
    /\ turn = 2
    /\ answer = "ok"
    /\ searchResults = Arr(<<>>)
    /\ SystemCount(messages) = 1
    /\ Len(messages) >= 3
    /\ messages[Len(messages)].role = "user"
    /\ \E s \in streams : s.turn = 2 /\ s.request = messages

\* C4: when a turn's search answers with results, the conversation becomes
\* the conversation of the submit, then one system message carrying the
\* formatted context of the stored results, then the user message; the
\* model request is made over this list, and its streamed response comes
\* right after it.
C4_SystemThenUser ==
    /\ [][ev' = "submit" => closure' = [input |-> input, messages |-> messages]]_vars
    /\ [][(TurnSucceeds /\ Len(searchResults'.items) > 0) =>
            /\ messages' = closure.messages
                   \o <<Message("system", FormatContext(searchResults'.items)),
                        Message("user", closure.input)>>
            /\ Head(messages'[Len(messages') - 1].content) = "Web Search Results:\n\n"
            /\ \E s \in streams' \ streams : s.turn = turn /\ s.request = messages'
            /\ Cardinality(streams' \ streams) = 1]_vars
    /\ [][\A s \in streams : \A t \in streams' :
            (t.turn = s.turn /\ t.chunks = s.chunks + 1) =>
                messages' = s.request \o <<Message("assistant", t.text)>>]_vars

\* Second turn, with results: the first turn's messages, its response, then
\* system and user of the second turn, and the streamed response after them.
C4_Witness ==
    /\ turn = 2
    /\ answer = "ok"
    /\ Len(messages) = 6
    /\ messages[3].role = "assistant"
    /\ messages[4].role = "system"
    /\ messages[5] = Message("user", FreshQuery(2))
    /\ messages[6].role = "assistant"
    /\ searchResults = Arr(Catalogue(2))

\* C5: the query history holds at most 3 entries and is, in order, the
\* queries of the most recent up-to-3 turns whose search answered well;
\* rejected and failed submits leave it alone.
C5_HistoryIsLastThreeSucceeded ==
    /\ Len(previousQueries) <= 3
    /\ previousQueries = SliceLast(succeeded, 3)
    /\ Len(succeeded) <= turn

\* Four searches answered well: the first query has been evicted.
C5_Witness ==
    /\ succeeded = <<<<"a">>, <<"b">>, <<"b">>, <<"a">>>>
    /\ previousQueries = <<<<"b">>, <<"b">>, <<"a">>>>

\* C6: the search request in flight carries the query typed at the submit
\* and, as previousQueries, the history of before this turn: at most 3
\* queries, the latest earlier turns whose search answered well, in order,
\* the current turn not among them.
C6_RequestCarriesEarlierQueries ==
    pc # "idle" =>
        /\ searchReq.query = closure.input
        /\ Len(searchReq.previousQueries) <= 3
        /\ searchReq.previousQueries = SliceLast(succeeded, 3)
        /\ searchReq.previousQueries = previousQueries
        /\ Len(succeeded) < turn

\* The fourth search is in flight with the three earlier queries.
C6_Witness ==
    /\ pc = "fetch"
    /\ turn = 4
    /\ searchReq = [query |-> <<"b">>,
                    previousQueries |-> <<<<"a">>, <<"b">>, <<"a">>>>]

IsBlank(s) == \A i \in DOMAIN s : IsSpace(s[i])

\* C7: a submit of an empty or white-space input is rejected and changes
\* nothing: no search request, no model request, conversation, history,
\* results, error and loading flag as before.
C7_BlankSubmitIsNoOp ==
    [][(IsBlank(input) /\ ev' \in {"rejected", "submit"}) =>
          /\ ev' = "rejected"
          /\ UNCHANGED <<input, messages, isSearching, searchResults,
                         searchError, previousQueries, pc, closure, searchReq,
                         streams, turn, cur, modelRequests, succeeded, answer>>]_vars

\* White space was submitted after a first turn, and rejected.
C7_Witness ==
    /\ ev = "rejected"
    /\ input = <<" ">>
    /\ turn = 1
    /\ pc = "idle"
    /\ messages # <<>>

\* C8: once the search collaborator has answered, well or not, the loading
\* flag is false again; on a well-formed answer it is false in the very
\* step that issues the model request, whose response has not begun.
C8_LoadingCoversSearchOnly ==
    /\ isSearching ~> ~isSearching
    /\ [][(pc # "idle" /\ pc' = "idle") => ~isSearching']_vars
    /\ [][TurnSucceeds =>
            /\ ~isSearching'
            /\ \E s \in streams' : s.turn = turn /\ s.chunks = 0]_vars
    /\ [](isSearching => pc # "idle")

\* Loading is false while the turn's model response has not yet arrived.
C8_Witness ==
    /\ ~isSearching
    /\ answer = "ok"
    /\ \E s \in streams : s.turn = turn /\ s.chunks = 0

\* What the segmenter's contract says, stated on positions.
OccursAt(s, m, i) ==
    /\ i + Len(m) - 1 <= Len(s)
    /\ \A k \in 1..Len(m) : s[i + k - 1] = m[k]

Has(s, m) == \E i \in 1..Len(s) : OccursAt(s, m, i)

First(s, m) ==
    CHOOSE i \in 1..Len(s) :
        OccursAt(s, m, i) /\ \A j \in 1..(i - 1) : ~OccursAt(s, m, j)

Without(s, m) ==
    IF Has(s, m)
        THEN LET i == First(s, m)
             IN  [k \in 1..(Len(s) - Len(m)) |->
                     IF k < i THEN s[k] ELSE s[k + Len(m)]]
        ELSE s

Trimmed(s) ==
    IF IsBlank(s) THEN <<>>
    ELSE LET inked == {i \in 1..Len(s) : ~IsSpace(s[i])}
             a == CHOOSE i \in inked : \A j \in inked : i <= j
             b == CHOOSE i \in inked : \A j \in inked : j <= i
         IN  [k \in 1..(b - a + 1) |-> s[a + k - 1]]

\* C9: for a content with an end marker, isComplete is true, thinking is the
\* text before the first end marker without its (first) start marker,
\* trimmed, and finalResponse is all the text after the first end marker,
\* later end markers included, trimmed.
C9_SplitAtFirstEndMarker ==
    Has(Content, EndMarker) =>
        LET k == First(Content, EndMarker)
        IN  /\ view.isComplete = TRUE
            /\ view.thinking =
                   Trimmed(Without(SubSeq(Content, 1, k - 1), StartMarker))
            /\ view.finalResponse =
                   Trimmed(SubSeq(Content, k + Len(EndMarker), Len(Content)))

\* A thinking text, an end marker, then text with a second end marker in it.
C9_Witness ==
    /\ Has(Content, StartMarker)
    /\ view.isComplete
    /\ view.thinking = <<"x">>
    /\ Has(view.finalResponse, EndMarker)
    /\ Len(view.finalResponse) > Len(EndMarker)

\* C10: for a content with a start marker and no end marker, isComplete is
\* false, finalResponse is empty and thinking is the content without its
\* (first) start marker, trimmed.
C10_OpenThinking ==
    (Has(Content, StartMarker) /\ ~Has(Content, EndMarker)) =>
        /\ view.isComplete = FALSE
        /\ view.finalResponse = <<>>
        /\ view.thinking = Trimmed(Without(Content, StartMarker))

\* White space, the start marker, white space, text, white space.
C10_Witness ==
    /\ buffer = <<<<" ">>, StartMarker, <<"\n">>, <<"x">>, <<" ">>>>
    /\ ~view.isComplete
    /\ view.thinking = <<"x">>
    /\ view.finalResponse = <<>>

\* C11: for a content with neither marker, the empty one included,
\* thinking is empty, isComplete is true and finalResponse is the content
\* itself, white space and all.
C11_PlainContentUntouched ==
    (~Has(Content, StartMarker) /\ ~Has(Content, EndMarker)) =>
        /\ view.thinking = <<>>
        /\ view.isComplete = TRUE
        /\ view.finalResponse = Content
        /\ Len(view.finalResponse) = Len(Content)

\* White space around text and the beginning of a marker, no marker.
C11_Witness ==
    /\ buffer = <<<<" ">>, <<"x">>, <<"<">>, <<"\n">>>>
    /\ view.finalResponse = <<" ", "x", "<", "\n">>
    /\ view.thinking = <<>>
    /\ view.isComplete

\* C12 as stated: isComplete, once true for a buffer that holds the end
\* marker, stays true as the buffer grows; and every prefix, of at least one
\* chunk, of a stream that opens with the start marker has isComplete false
\* and finalResponse empty until the end marker arrives.
C12_AsStated ==
    /\ [][(Has(Content, EndMarker) /\ view.isComplete) => view'.isComplete]_vars
    /\ [][(buffer # <<>> /\ OccursAt(Flatten(buffer'), StartMarker, 1)
                /\ ~Has(Flatten(buffer'), EndMarker)) =>
             (view.isComplete = FALSE /\ view.finalResponse = <<>>)]_vars

\* C12, amended: isComplete, once true for a buffer that holds the end
\* marker, stays true as the buffer grows; and every prefix that holds the
\* whole start marker at its beginning and no end marker has isComplete
\* false and finalResponse empty.
C12_CompleteStaysComplete ==
    /\ [][(Has(Content, EndMarker) /\ view.isComplete) =>
             (view'.isComplete /\ Has(Flatten(buffer'), EndMarker))]_vars
    /\ []((OccursAt(Content, StartMarker, 1) /\ ~Has(Content, EndMarker)) =>
             (view.isComplete = FALSE /\ view.finalResponse = <<>>))

\* The buffer went on past the end marker, with a new start marker after it.
C12_Witness ==
    /\ buffer = <<StartMarker, <<"x">>, EndMarker, <<"x">>, StartMarker>>
    /\ view.isComplete
    /\ view.thinking = <<"x">>
    /\ view.finalResponse = <<"x">> \o StartMarker

\* The messages of msgs whose role is user or assistant, in order.
RECURSIVE UserAndAssistant(_)
UserAndAssistant(msgs) ==
    IF msgs = <<>> THEN <<>>
    ELSE IF Head(msgs).role \in {"user", "assistant"}
        THEN <<Head(msgs)>> \o UserAndAssistant(Tail(msgs))
    ELSE UserAndAssistant(Tail(msgs))

\* C13: the displayed transcript is the log restricted to user and assistant
\* messages, in the log's order; no system message is displayed, the log
\* keeps the ones the display leaves out, and the request issued by a turn
\* with results carries the injected system message.
C13_DisplayHidesSystem ==
    /\ [](/\ Visible(messages) = UserAndAssistant(messages)
          /\ \A i \in DOMAIN Visible(messages) :
                Visible(messages)[i].role # "system"
          /\ Len(messages) = Len(Visible(messages)) + SystemCount(messages))
    /\ [][(TurnSucceeds /\ searchResults'.kind = "array"
                /\ searchResults'.items # <<>>) =>
            \E s \in streams' \ streams :
                /\ s.request = messages'
                /\ \E i \in DOMAIN s.request :
                      /\ s.request[i].role = "system"
                      /\ s.request[i].content = FormatContext(searchResults'.items)
                /\ Len(Visible(s.request)) < Len(s.request)]_vars

\* A log with a system message between displayed ones: the transcript shows
\* the two user messages and the assistant message only.
C13_Witness ==
    /\ SystemCount(messages) = 1
    /\ Len(messages) = 4
    /\ [i \in DOMAIN Visible(messages) |-> Visible(messages)[i].role]
          \in {<<"user", "user", "assistant">>, <<"user", "assistant", "user">>}

\* new keeps every message of old at its place, with at least its content.
Extends(old, new) ==
    /\ Len(old) <= Len(new)
    /\ \A i \in DOMAIN old :
          /\ new[i].role = old[i].role
          /\ Len(old[i].content) <= Len(new[i].content)
          /\ SubSeq(new[i].content, 1, Len(old[i].content)) = old[i].content

\* C14: the conversation is append-only; in particular the step in which the
\* search answer arrives and the orchestrator writes the conversation (system
\* message, user message) removes, reorders or rolls back nothing of the
\* conversation as it then stands, whatever the streaming transport added
\* since the submit.
C14_AppendOnly ==
    [][TurnSucceeds => Extends(messages, messages')]_vars

\* The messages the search of the turn of user message i returned: the list
\* the system message injected before it cites, none without such a message.
OwnResults(i) ==
    IF i > 1 /\ messages[i - 1].role = "system"
        THEN CHOOSE l \in WellFormedLists :
                 FormatContext(l) = messages[i - 1].content
    ELSE <<>>

\* C15: once the latest search has succeeded, the source list rendered after
\* every user message of the conversation is the result list of that
\* message's own turn, entry i being the result its system message cites as
\* Source [i].
C15_SourcesOfOwnTurn ==
    (pc = "idle" /\ searchError = NoError /\ answer = "ok") =>
        \A i \in DOMAIN messages :
            messages[i].role = "user" =>
                RenderedSources(messages[i]) = OwnResults(i)

\* C16 as stated: a recorded search error stays set through every step
\* that is not the successful completion of a later turn's search.
C16_ErrorUntilNextSuccess ==
    [][(searchError # NoError /\ ~TurnSucceeds) => searchError' # NoError]_vars

\* C16, amended: a recorded search error stays as it is through every step
\* but an accepted submit; an accepted submit clears it, so that no error is
\* set while a turn is in Searching, and the error shown after a following
\* turn failed is that turn's own.
C16_ErrorUntilNextSubmit ==
    /\ [][(searchError # NoError /\ turn' = turn) => searchError' = searchError]_vars
    /\ [][turn' # turn => searchError' = NoError]_vars
    /\ [](isSearching => searchError = NoError)
    /\ [][TurnFails => (searchError = NoError /\ searchError' # NoError)]_vars

\* The second turn is in Searching after a first one that failed (no model
\* request was ever issued): the error of the first turn is gone.
C16_Witness ==
    /\ turn = 2
    /\ isSearching
    /\ modelRequests = 0
    /\ searchError = NoError

\* C17: while an earlier turn is outstanding (its search unresolved or its
\* model response still streaming) no step starts another turn: no second
\* search request, no second model request, conversation and history as
\* they were.
C17_NoSubmitWhileOutstanding ==
    [][(pc # "idle" \/ streams # {}) =>
          (turn' = turn /\ searchReq' \in {searchReq, NoRequest})]_vars

\* C18: the step of an accepted submit raises the loading flag, empties the
\* stored results and clears the error as it sends the search request; while
\* the loading flag is up the stored result list is empty.
C18_SubmitResets ==
    /\ [][turn' # turn =>
            /\ isSearching' = TRUE
            /\ searchResults' = Arr(<<>>)
            /\ searchError' = NoError
            /\ searchReq' # NoRequest
            /\ pc' = "fetch"]_vars
    /\ [](isSearching => searchResults = Arr(<<>>))

\* The second turn is in Searching after a first one whose search returned
\* results (its system message is in the captured conversation): the stored
\* list is empty again.
C18_Witness ==
    /\ turn = 2
    /\ isSearching
    /\ SystemCount(closure.messages) = 1
    /\ searchResults = Arr(<<>>)

\* C19: an accepted submit issues one search request and no other step
\* issues one; a turn issues at most one model request, in the step in which
\* its search succeeds; the number of model requests is the number of turns
\* whose search succeeded.
C19_OneSearchOneRequest ==
    /\ [](/\ modelRequests = Len(succeeded)
          /\ modelRequests <= turn
          /\ cur.requests = (IF answer = "ok" THEN 1 ELSE 0))
    /\ [][turn' # turn =>
            (turn' = turn + 1 /\ searchReq' # NoRequest /\ searchReq'.query = input
                /\ modelRequests' = modelRequests)]_vars
    /\ [][turn' = turn => searchReq' \in {searchReq, NoRequest}]_vars
    /\ [][modelRequests' # modelRequests =>
            /\ TurnSucceeds
            /\ modelRequests' = modelRequests + 1
            /\ Cardinality(streams') = Cardinality(streams) + 1]_vars

\* Two turns, the first with results and the second without: two model
\* requests, one for each.
C19_Witness ==
    /\ turn = 2
    /\ modelRequests = 2
    /\ cur.requests = 1
    /\ SystemCount(messages) = 1
    /\ Len(succeeded) = 2

\* C20: in every state the stored search results are a list of result
\* objects, possibly empty, and whenever a search error is set that list is
\* empty, so that no source list is rendered next to an error.
C20_NoListWithError ==
    /\ searchResults.kind = "array"
    /\ \A i \in DOMAIN searchResults.items : searchResults.items[i].kind = "object"
    /\ (searchError # NoError =>
            /\ searchResults.items = <<>>
            /\ \A i \in DOMAIN messages : RenderedSources(messages[i]) = <<>>)

====
